---- MODULE Spec2Model ----
(***************************************************************************)
(* A model of src/datetime_formatter.py: class DateTimeFormatter.           *)
(*                                                                         *)
(* Text is modelled as a sequence of one-character strings, so that        *)
(* parsing (fromisoformat, float, strptime) and rendering (strftime) are   *)
(* computed character by character.  Numbers given to parse_input are      *)
(* decimal digit sequences with a sign and a microsecond fraction, so      *)
(* that the 1e12 threshold and the range of the platform's time_t and of   *)
(* datetime (years 1..9999) are exact.  A datetime is the pair (days since *)
(* 1970-01-01, second of the day) of its wall clock, its microsecond and   *)
(* its utcoffset; the civil fields are computed from it and back.          *)
(*                                                                         *)
(* The library calls are modelled as CPython 3.11 on Linux/glibc behaves.  *)
(***************************************************************************)
EXTENDS Integers, Sequences, FiniteSets, TLC

VARIABLES
    formats,           \* self.formats: the ordered name -> pattern mapping
    default_timezone,  \* self.default_timezone
    HAS_PYTZ,          \* whether the import of pytz succeeded
    log,               \* history: the (name, pattern) pairs registered so far
    op,                \* the method being called, or "idle" between calls
    arg,               \* its arguments
    ret                \* what it returned or raised

vars == <<formats, default_timezone, HAS_PYTZ, log, op, arg, ret>>

(***************************************************************************)
(* Characters and digit sequences                                          *)
(***************************************************************************)
DigitChars == <<"0", "1", "2", "3", "4", "5", "6", "7", "8", "9">>

IsDigit(c) == \E i \in 1..10 : DigitChars[i] = c

DigitVal(c) == (CHOOSE i \in 1..10 : DigitChars[i] = c) - 1

AllDigits(s) == \A i \in 1..Len(s) : IsDigit(s[i])

\* the digits of a text as numbers 0..9
DigitsOf(s) == [i \in 1..Len(s) |-> DigitVal(s[i])]

\* the text of a digit sequence
CharsOf(d) == [i \in 1..Len(d) |-> DigitChars[d[i] + 1]]

Zeros(n) == [i \in 1..n |-> 0]

RECURSIVE StripZeros(_)
StripZeros(d) ==
    IF Len(d) > 1 /\ d[1] = 0 THEN StripZeros(Tail(d)) ELSE d

\* a magnitude is a digit sequence without leading zeros; <<0>> is zero
Mag(d) == IF Len(d) = 0 THEN <<0>> ELSE StripZeros(d)

RECURSIVE LexCmp(_, _)
LexCmp(a, b) ==
    IF Len(a) = 0 THEN 0
    ELSE IF a[1] < b[1] THEN -1
    ELSE IF a[1] > b[1] THEN 1
    ELSE LexCmp(Tail(a), Tail(b))

\* -1, 0, 1 as magnitude a is below, equal to, above magnitude b
MagCmp(a, b) ==
    IF Len(a) < Len(b) THEN -1
    ELSE IF Len(a) > Len(b) THEN 1
    ELSE LexCmp(a, b)

RECURSIVE MagInc(_)
MagInc(d) ==
    IF Len(d) = 0 THEN <<1>>
    ELSE IF d[Len(d)] < 9 THEN [d EXCEPT ![Len(d)] = @ + 1]
    ELSE MagInc(SubSeq(d, 1, Len(d) - 1)) \o <<0>>

\* the value of a short digit sequence (at most 9 digits)
RECURSIVE SmallVal(_)
SmallVal(d) ==
    IF Len(d) = 0 THEN 0
    ELSE SmallVal(SubSeq(d, 1, Len(d) - 1)) * 10 + d[Len(d)]

\* the digits of a natural number
RECURSIVE NatDigits(_)
NatDigits(n) ==
    IF n < 10 THEN <<n>> ELSE NatDigits(n \div 10) \o <<n % 10>>

\* long division of a magnitude by a small divisor: quotient digits, remainder
RECURSIVE LongDiv(_, _, _, _)
LongDiv(d, k, q, r) ==
    IF Len(d) = 0 THEN [q |-> Mag(q), r |-> r]
    ELSE LET cur == r * 10 + d[1]
         IN  LongDiv(Tail(d), k, q \o <<cur \div k>>, cur % k)

\* a signed integer: a sign and a magnitude (zero is never negative)
Big(neg, d) == [neg |-> neg /\ Mag(d) # <<0>>, d |-> Mag(d)]

BigCmp(x, y) ==
    IF x.neg /\ ~y.neg THEN -1
    ELSE IF ~x.neg /\ y.neg THEN 1
    ELSE IF x.neg THEN MagCmp(y.d, x.d)
    ELSE MagCmp(x.d, y.d)

(***************************************************************************)
(* The proleptic Gregorian calendar of datetime                            *)
(***************************************************************************)
SecondsPerDay == 86400

IsLeap(y) == y % 4 = 0 /\ (y % 100 # 0 \/ y % 400 = 0)

DaysInMonth(y, m) ==
    IF m = 2 THEN (IF IsLeap(y) THEN 29 ELSE 28)
    ELSE IF m \in {4, 6, 9, 11} THEN 30
    ELSE 31

\* days before 1 January of year y, counted from 1 January of year 1
DaysBeforeYear(y) ==
    LET p == y - 1
    IN  p * 365 + p \div 4 - p \div 100 + p \div 400

RECURSIVE DaysBeforeMonth(_, _)
DaysBeforeMonth(y, m) ==
    IF m = 1 THEN 0 ELSE DaysBeforeMonth(y, m - 1) + DaysInMonth(y, m - 1)

\* the ordinal of 1970-01-01, date(1970, 1, 1).toordinal()
EpochOrdinal == DaysBeforeYear(1970) + 1

\* days since 1970-01-01 of the civil date y-m-d
DaysFromCivil(y, m, d) ==
    DaysBeforeYear(y) + DaysBeforeMonth(y, m) + d - EpochOrdinal

\* the year of a day count: the last year that starts on or before it
YearOf(days) ==
    LET ord == days + EpochOrdinal
        est == (ord - 1) \div 366 + 1
    IN  CHOOSE y \in est..(est + 40) :
            /\ DaysBeforeYear(y) < ord
            /\ DaysBeforeYear(y + 1) >= ord

CivilFromDays(days) ==
    LET y   == YearOf(days)
        doy == days + EpochOrdinal - DaysBeforeYear(y)
        m   == CHOOSE k \in 1..12 :
                   /\ DaysBeforeMonth(y, k) < doy
                   /\ DaysBeforeMonth(y, k) + DaysInMonth(y, k) >= doy
    IN  [year |-> y, month |-> m, day |-> doy - DaysBeforeMonth(y, m)]

\* Monday is 0, as datetime.weekday(); 1970-01-01 was a Thursday
Weekday(days) == (days + 3) % 7

\* datetime.min and datetime.max as days since the epoch
MinDays == DaysFromCivil(1, 1, 1)

MaxDays == DaysFromCivil(9999, 12, 31)

(***************************************************************************)
(* Results: a returned value, or the exception a call raises               *)
(***************************************************************************)
Ok(v) == [ok |-> TRUE, v |-> v]

Err(exc, msg) == [ok |-> FALSE, exc |-> exc, msg |-> msg]

(***************************************************************************)
(* datetime values                                                         *)
(***************************************************************************)
\* a datetime: the wall clock as (days since 1970-01-01, second of the day),
\* the microsecond, and the tzinfo: aware with utcoffset off, or naive
DT(days, sod, us, aware, off) ==
    [days |-> days, sod |-> sod, us |-> us, aware |-> aware, off |-> off]

\* datetime(y, m, d, H, M, S, us, tzinfo)
MkDT(y, m, d, H, M, S, us, aware, off) ==
    DT(DaysFromCivil(y, m, d), H * 3600 + M * 60 + S, us, aware, off)

\* date.replace(tzinfo=timezone.utc): the wall clock is kept
ReplaceUTC(dt) == [dt EXCEPT !.aware = TRUE, !.off = 0]

\* the wall clock shifted by delta seconds
ShiftWall(dt, delta) ==
    LET t == dt.sod + delta
    IN  [dt EXCEPT !.days = dt.days + t \div SecondsPerDay,
                   !.sod = t % SecondsPerDay]

\* the point in time of a datetime as <<days, second of day, microsecond>>
\* in UTC; a naive datetime is read as UTC
AbsTime(dt) ==
    LET u == ShiftWall(dt, -dt.off)
    IN  <<u.days, u.sod, u.us>>

\* aware.astimezone(tz) for a zone of fixed utcoffset off: OverflowError
\* when the wall clock leaves datetime.min .. datetime.max
AsTimezone(dt, off) ==
    LET w == [ShiftWall(dt, off - dt.off) EXCEPT !.aware = TRUE, !.off = off]
    IN  IF w.days < MinDays \/ w.days > MaxDays
        THEN Err("OverflowError", "date value out of range")
        ELSE Ok(w)

(***************************************************************************)
(* Numbers: int and float inputs                                           *)
(***************************************************************************)
\* kind k is "int", "float", "inf" or "nan"; the value of an int or a
\* finite float is (-1)^neg * (d + us / 10^6), d a magnitude, us in 0..999999
Num(k, neg, d, us) ==
    [k |-> k, neg |-> neg /\ (Mag(d) # <<0>> \/ us # 0 \/ k = "inf"),
     d |-> Mag(d), us |-> us]

IntNum(neg, d) == Num("int", neg, d, 0)

Inf(neg) == Num("inf", neg, <<0>>, 0)

NaN == Num("nan", FALSE, <<0>>, 0)

\* 10^12, the literal 1e12
E12 == <<1>> \o Zeros(12)

\* n > 1e12
GreaterThan1e12(n) ==
    IF n.k = "nan" THEN FALSE
    ELSE IF n.k = "inf" THEN ~n.neg
    ELSE /\ ~n.neg
         /\ \/ MagCmp(n.d, E12) = 1
            \/ MagCmp(n.d, E12) = 0 /\ n.us > 0

\* sys.float_info.max has 309 digits and starts 17976931348623157: a
\* magnitude that rounds above it is no finite float
FloatMaxLead == <<1, 7, 9, 7, 6, 9, 3, 1, 3, 4, 8, 6, 2, 3, 1, 5, 8>>

FloatMaxDigits == 309

BeyondFloat(d) ==
    \/ Len(d) > FloatMaxDigits
    \/ /\ Len(d) = FloatMaxDigits
       /\ LexCmp(SubSeq(d, 1, Len(FloatMaxLead)), FloatMaxLead) >= 0

\* n / 1000 for n > 1e12: true division gives a float, and of an int too
\* large for a float raises OverflowError
DivideBy1000(n) ==
    IF n.k = "inf" THEN Ok(n)
    ELSE LET q    == Mag(SubSeq(n.d, 1, Len(n.d) - 3))
             last == SmallVal(SubSeq(n.d, Len(n.d) - 2, Len(n.d)))
         IN  IF n.k = "int" /\ BeyondFloat(q)
             THEN Err("OverflowError",
                      "integer division result too large for a float")
             ELSE Ok(Num("float", n.neg, q, last * 1000 + n.us \div 1000))

\* the range of the platform's time_t (64 bits), of glibc's gmtime (the
\* year fits a C int) and of datetime (years 1..9999), in seconds
TimeTMax == Big(FALSE, <<9,2,2,3,3,7,2,0,3,6,8,5,4,7,7,5,8,0,7>>)

TimeTMin == Big(TRUE, <<9,2,2,3,3,7,2,0,3,6,8,5,4,7,7,5,8,0,8>>)

GmtimeMax == Big(FALSE, <<6,7,7,6,8,0,3,6,1,9,1,6,7,6,7,9,9>>)

GmtimeMin == Big(TRUE, <<6,7,7,6,8,0,4,0,6,0,9,7,4,0,8,0,0>>)

MaxTimestamp == Big(FALSE, <<2,5,3,4,0,2,3,0,0,7,9,9>>)

MinTimestamp == Big(TRUE, <<6,2,1,3,5,5,9,6,8,0,0>>)

\* datetime.fromtimestamp(n, tz=timezone.utc)
FromTimestamp(n) ==
    IF n.k = "nan"
    THEN Err("ValueError", "Invalid value NaN (not a number)")
    ELSE IF n.k = "inf"
    THEN Err("OverflowError", "timestamp out of range for platform time_t")
    ELSE
      LET down == n.neg /\ n.us > 0
          secs == Big(n.neg, IF down THEN MagInc(n.d) ELSE n.d)
          us   == IF down THEN 1000000 - n.us ELSE n.us
      IN  IF BigCmp(secs, TimeTMax) = 1 \/ BigCmp(secs, TimeTMin) = -1
          THEN Err("OverflowError", "timestamp out of range for platform time_t")
          ELSE IF BigCmp(secs, GmtimeMax) = 1 \/ BigCmp(secs, GmtimeMin) = -1
          THEN Err("OSError", "Value too large for defined data type")
          ELSE IF BigCmp(secs, MaxTimestamp) = 1 \/ BigCmp(secs, MinTimestamp) = -1
          THEN Err("ValueError", "year is out of range")
          ELSE
            LET qr   == LongDiv(secs.d, SecondsPerDay, <<>>, 0)
                q    == SmallVal(qr.q)
                days == IF ~secs.neg THEN q
                        ELSE IF qr.r = 0 THEN -q ELSE -q - 1
                sod  == IF ~secs.neg \/ qr.r = 0 THEN qr.r
                        ELSE SecondsPerDay - qr.r
            IN  Ok(DT(days, sod, us, TRUE, 0))

\* lines 71-74 and 87-90: the seconds / milliseconds heuristic
ParseTimestamp(n) ==
    IF GreaterThan1e12(n)
    THEN LET q == DivideBy1000(n)
         IN  IF q.ok THEN FromTimestamp(q.v) ELSE q
    ELSE FromTimestamp(n)

(***************************************************************************)
(* Text: str.replace, float(str)                                           *)
(***************************************************************************)
\* input_date.replace('Z', '+00:00'): every Z of the text is replaced
RECURSIVE ReplaceZ(_)
ReplaceZ(s) ==
    IF Len(s) = 0 THEN <<>>
    ELSE (IF s[1] = "Z" THEN <<"+", "0", "0", ":", "0", "0">> ELSE <<s[1]>>)
         \o ReplaceZ(Tail(s))

\* the first position of s holding a character of C, or 0
FirstOf(s, C) ==
    IF \E i \in 1..Len(s) : s[i] \in C
    THEN CHOOSE i \in 1..Len(s) :
             s[i] \in C /\ \A j \in 1..(i - 1) : s[j] \notin C
    ELSE 0

From(s, i) == SubSeq(s, i, Len(s))

UpTo(s, i) == SubSeq(s, 1, i)

RECURSIVE Strip(_)
Strip(s) ==
    IF Len(s) > 0 /\ s[1] = " " THEN Strip(Tail(s))
    ELSE IF Len(s) > 0 /\ s[Len(s)] = " " THEN Strip(UpTo(s, Len(s) - 1))
    ELSE s

UpperChars ==
    <<"A", "B", "C", "D", "E", "F", "G", "H", "I", "J", "K", "L", "M",
      "N", "O", "P", "Q", "R", "S", "T", "U", "V", "W", "X", "Y", "Z">>

LowerChars ==
    <<"a", "b", "c", "d", "e", "f", "g", "h", "i", "j", "k", "l", "m",
      "n", "o", "p", "q", "r", "s", "t", "u", "v", "w", "x", "y", "z">>

LowerChar(c) ==
    IF \E i \in 1..26 : UpperChars[i] = c
    THEN LowerChars[CHOOSE i \in 1..26 : UpperChars[i] = c]
    ELSE c

Lower(s) == [i \in 1..Len(s) |-> LowerChar(s[i])]

\* an underscore of a numeric literal stands between two digits
UnderscoresOk(s) ==
    \A i \in 1..Len(s) :
        s[i] = "_" => /\ 1 < i /\ i < Len(s)
                      /\ IsDigit(s[i - 1]) /\ IsDigit(s[i + 1])

DropUnderscores(s) == SelectSeq(s, LAMBDA c : c # "_")

\* the largest exponent, in decimal digits, that float(str) is followed to
MaxExpDigits == 4

\* the first six digits of a fraction as microseconds (digits beyond the
\* sixth are dropped)
MicrosOf(frac) ==
    SmallVal([i \in 1..6 |-> IF i <= Len(frac) THEN frac[i] ELSE 0])

NotAFloat == Err("ValueError", "could not convert string to float")

\* the float of the significant digits all (no leading zero, unless all is
\* <<0>>) with the decimal point standing after all[point]
FloatOfDigits(neg, all, point) ==
    IF point >= Len(all)
    THEN IF BeyondFloat(Mag(all \o Zeros(point - Len(all)))) THEN Ok(Inf(neg))
         ELSE Ok(Num("float", neg, all \o Zeros(point - Len(all)), 0))
    ELSE IF point <= 0
    THEN Ok(Num("float", neg, <<0>>, MicrosOf(Zeros(-point) \o all)))
    ELSE Ok(Num("float", neg, UpTo(all, point), MicrosOf(From(all, point + 1))))

\* digits: those of the mantissa; intLen: how many stand before the point;
\* eMag: the exponent's magnitude
FloatOfParts(neg, digits, intLen, exNeg, eMag) ==
    IF Mag(digits) = <<0>> THEN Ok(Num("float", neg, <<0>>, 0))
    ELSE IF Len(eMag) > MaxExpDigits
    THEN (IF exNeg THEN Ok(Num("float", neg, <<0>>, 0)) ELSE Ok(Inf(neg)))
    ELSE IF intLen - (Len(digits) - Len(Mag(digits)))
            + (IF exNeg THEN -SmallVal(eMag) ELSE SmallVal(eMag)) < -6
    THEN Ok(Num("float", neg, <<0>>, 0))
    ELSE FloatOfDigits(neg, Mag(digits),
                       intLen - (Len(digits) - Len(Mag(digits)))
                        + (IF exNeg THEN -SmallVal(eMag) ELSE SmallVal(eMag)))

\* ip . fp e [-] exDig, the exponent being there when hasExp
FloatOfFields(neg, ip, fp, hasExp, exNeg, exDig) ==
    IF \/ ~AllDigits(ip) \/ ~AllDigits(fp)
       \/ Len(ip) + Len(fp) = 0
       \/ hasExp /\ (Len(exDig) = 0 \/ ~AllDigits(exDig))
    THEN NotAFloat
    ELSE FloatOfParts(neg, DigitsOf(ip) \o DigitsOf(fp), Len(ip), exNeg,
                      Mag(DigitsOf(exDig)))

FloatOfMantissa(neg, mant, dot, hasExp, exNeg, exDig) ==
    IF dot = 0 THEN FloatOfFields(neg, mant, <<>>, hasExp, exNeg, exDig)
    ELSE FloatOfFields(neg, UpTo(mant, dot - 1), From(mant, dot + 1),
                       hasExp, exNeg, exDig)

FloatOfExponent(neg, mant, hasExp, ex) ==
    IF Len(ex) > 0 /\ ex[1] \in {"+", "-"}
    THEN FloatOfMantissa(neg, mant, FirstOf(mant, {"."}), hasExp,
                         ex[1] = "-", Tail(ex))
    ELSE FloatOfMantissa(neg, mant, FirstOf(mant, {"."}), hasExp, FALSE, ex)

FloatOfDecimal(neg, b, ePos) ==
    IF ePos = 0 THEN FloatOfExponent(neg, b, FALSE, <<>>)
    ELSE FloatOfExponent(neg, UpTo(b, ePos - 1), TRUE, From(b, ePos + 1))

\* low: the text after its sign, in lower case
FloatOfBody(neg, low) ==
    IF low \in {<<"i", "n", "f">>, <<"i", "n", "f", "i", "n", "i", "t", "y">>}
    THEN Ok(Inf(neg))
    ELSE IF low = <<"n", "a", "n">> THEN Ok(NaN)
    ELSE IF ~UnderscoresOk(low) THEN NotAFloat
    ELSE FloatOfDecimal(neg, DropUnderscores(low),
                        FirstOf(DropUnderscores(low), {"e"}))

FloatOfStripped(s) ==
    IF Len(s) > 0 /\ s[1] \in {"+", "-"}
    THEN FloatOfBody(s[1] = "-", Lower(Tail(s)))
    ELSE FloatOfBody(FALSE, Lower(s))

\* float(text): optional blanks and sign, then inf, infinity or nan in any
\* case, or digits [. digits] [e [sign] digits] with at least one digit.
\* A ValueError when the text is none of these.
ParseFloat(text) == FloatOfStripped(Strip(text))

(***************************************************************************)
(* datetime.fromisoformat                                                  *)
(***************************************************************************)
Num2(s, i) == DigitVal(s[i]) * 10 + DigitVal(s[i + 1])

TwoDigitsAt(s, i) == i + 1 <= Len(s) /\ IsDigit(s[i]) /\ IsDigit(s[i + 1])

\* hh[:mm[:ss[(.|,)f+]]], the grammar of a time and of a utcoffset; digits
\* of the fraction beyond the sixth are dropped
ParseHHMMSS(p) ==
    LET bad == [ok |-> FALSE, h |-> 0, m |-> 0, s |-> 0, us |-> 0]
        n   == Len(p)
    IN  IF ~TwoDigitsAt(p, 1) THEN bad
        ELSE IF n = 2
        THEN [ok |-> TRUE, h |-> Num2(p, 1), m |-> 0, s |-> 0, us |-> 0]
        ELSE IF p[3] # ":" \/ ~TwoDigitsAt(p, 4) THEN bad
        ELSE IF n = 5
        THEN [ok |-> TRUE, h |-> Num2(p, 1), m |-> Num2(p, 4), s |-> 0, us |-> 0]
        ELSE IF p[6] # ":" \/ ~TwoDigitsAt(p, 7) THEN bad
        ELSE IF n = 8
        THEN [ok |-> TRUE, h |-> Num2(p, 1), m |-> Num2(p, 4),
              s |-> Num2(p, 7), us |-> 0]
        ELSE IF p[9] \notin {".", ","} \/ n = 9 \/ ~AllDigits(From(p, 10)) THEN bad
        ELSE [ok |-> TRUE, h |-> Num2(p, 1), m |-> Num2(p, 4),
              s |-> Num2(p, 7), us |-> MicrosOf(DigitsOf(From(p, 10)))]

\* the time and the utcoffset of an ISO text parsed, on the date y-m-d
IsoDatetime(y, m, d, tm, hasTz, tzNeg, tz) ==
    IF ~tm.ok \/ tm.h > 23 \/ tm.m > 59 \/ tm.s > 59
    THEN Err("ValueError", "Invalid isoformat string")
    ELSE IF ~hasTz
    THEN Ok(MkDT(y, m, d, tm.h, tm.m, tm.s, tm.us, FALSE, 0))
    ELSE IF \/ ~tz.ok \/ tz.us # 0
            \/ tz.h * 3600 + tz.m * 60 + tz.s >= SecondsPerDay
    THEN Err("ValueError", "Invalid isoformat string")
    ELSE Ok(MkDT(y, m, d, tm.h, tm.m, tm.s, tm.us, TRUE,
                 (IF tzNeg THEN -1 ELSE 1) * (tz.h * 3600 + tz.m * 60 + tz.s)))

\* tstr: the text after the separator; tzPos: where its utcoffset starts
IsoTime(y, m, d, tstr, tzPos) ==
    IF tzPos = 0
    THEN IsoDatetime(y, m, d, ParseHHMMSS(tstr), FALSE, FALSE,
                     ParseHHMMSS(<<>>))
    ELSE IsoDatetime(y, m, d, ParseHHMMSS(UpTo(tstr, tzPos - 1)), TRUE,
                     tstr[tzPos] = "-", ParseHHMMSS(From(tstr, tzPos + 1)))

IsoDate(s, y, m, d) ==
    IF y < 1 \/ m < 1 \/ m > 12 \/ d < 1 \/ d > DaysInMonth(y, m)
    THEN Err("ValueError", "Invalid isoformat string")
    ELSE IF Len(s) = 10 THEN Ok(MkDT(y, m, d, 0, 0, 0, 0, FALSE, 0))
    ELSE IF Len(s) = 11 THEN Err("ValueError", "Invalid isoformat string")
    ELSE IsoTime(y, m, d, From(s, 12), FirstOf(From(s, 12), {"+", "-"}))

\* datetime.fromisoformat(s) for the extended forms
\*   YYYY-MM-DD
\*   YYYY-MM-DD<any character>hh[:mm[:ss[.f+]]][(+|-)hh[:mm[:ss]]]
\* (a Z has been replaced before the call); a ValueError otherwise
FromIsoFormat(s) ==
    IF \/ Len(s) < 10
       \/ ~AllDigits(UpTo(s, 4)) \/ s[5] # "-" \/ ~TwoDigitsAt(s, 6)
       \/ s[8] # "-" \/ ~TwoDigitsAt(s, 9)
    THEN Err("ValueError", "Invalid isoformat string")
    ELSE IsoDate(s, SmallVal(DigitsOf(UpTo(s, 4))), Num2(s, 6), Num2(s, 9))

(***************************************************************************)
(* datetime.strptime                                                       *)
(***************************************************************************)
D09 == {"0", "1", "2", "3", "4", "5", "6", "7", "8", "9"}

D19 == D09 \ {"0"}

\* the regular expression of each directive (_strptime.TimeRE), as its
\* alternatives in order, each a sequence of character classes
DirectiveRE(c) ==
    CASE c = "Y" -> << <<D09, D09, D09, D09>> >>
      [] c = "m" -> << <<{"1"}, {"0", "1", "2"}>>, <<{"0"}, D19>>, <<D19>> >>
      [] c = "d" -> << <<{"3"}, {"0", "1"}>>, <<{"1", "2"}, D09>>,
                       <<{"0"}, D19>>, <<D19>>, <<{" "}, D19>> >>
      [] c = "H" -> << <<{"2"}, {"0", "1", "2", "3"}>>, <<{"0", "1"}, D09>>,
                       <<D09>> >>
      [] c = "M" -> << <<{"0", "1", "2", "3", "4", "5"}, D09>>, <<D09>> >>
      [] c = "S" -> << <<{"6"}, {"0", "1"}>>,
                       <<{"0", "1", "2", "3", "4", "5"}, D09>>, <<D09>> >>
      [] OTHER   -> << >>

AltMatches(alt, s, j) ==
    /\ j + Len(alt) - 1 <= Len(s)
    /\ \A k \in 1..Len(alt) : s[j + k - 1] \in alt[k]

\* the number a directive matched at s[j .. j + n - 1] (a blank counts 0)
MatchedValue(s, j, n) ==
    SmallVal([k \in 1..n |-> IF IsDigit(s[j + k - 1])
                             THEN DigitVal(s[j + k - 1]) ELSE 0])

\* the run of blanks of s that starts at j
RECURSIVE BlankRun(_, _)
BlankRun(s, j) ==
    IF j <= Len(s) /\ s[j] = " " THEN 1 + BlankRun(s, j + 1) ELSE 0

NoMatch == [ok |-> FALSE]

\* re.match of the format's regular expression on s from j, with the
\* backtracking of the regex engine: the first alternative, in order, under
\* which the rest of the format matches.  The match need not reach the end.
RECURSIVE ReMatch(_, _, _, _, _)
RECURSIVE TryAlts(_, _, _, _, _, _, _)
RECURSIVE TryBlanks(_, _, _, _, _, _)
ReMatch(fmt, i, s, j, f) ==
    IF i > Len(fmt) THEN [ok |-> TRUE, end |-> j, f |-> f]
    ELSE IF fmt[i] = "%" /\ i < Len(fmt)
    THEN TryAlts(fmt, i + 2, s, j, f, fmt[i + 1], DirectiveRE(fmt[i + 1]))
    ELSE IF fmt[i] = " "
    THEN TryBlanks(fmt, i + 1, s, j, f, BlankRun(s, j))
    ELSE IF j <= Len(s) /\ LowerChar(s[j]) = LowerChar(fmt[i])
    THEN ReMatch(fmt, i + 1, s, j + 1, f)
    ELSE NoMatch

TryAlts(fmt, i, s, j, f, c, alts) ==
    IF Len(alts) = 0 THEN NoMatch
    ELSE LET a == Head(alts)
             r == ReMatch(fmt, i, s, j + Len(a),
                          [f EXCEPT ![c] = MatchedValue(s, j, Len(a))])
         IN  IF AltMatches(a, s, j) /\ r.ok THEN r
             ELSE TryAlts(fmt, i, s, j, f, c, Tail(alts))

\* \s+ is greedy: the longest run first, then shorter ones
TryBlanks(fmt, i, s, j, f, n) ==
    IF n < 1 THEN NoMatch
    ELSE LET r == ReMatch(fmt, i, s, j + n, f)
         IN  IF r.ok THEN r ELSE TryBlanks(fmt, i, s, j, f, n - 1)

\* datetime.strptime(s, fmt) for formats of Y m d H M S directives:
\* a ValueError when the format does not match, data remains after the
\* match, or the fields are no date and time
Strptime(s, fmt) ==
    LET r == ReMatch(fmt, 1, s, 1,
                     [Y |-> 1900, m |-> 1, d |-> 1, H |-> 0, M |-> 0, S |-> 0])
    IN  IF ~r.ok
        THEN Err("ValueError", "time data does not match format")
        ELSE IF r.end # Len(s) + 1
        THEN Err("ValueError", "unconverted data remains")
        ELSE IF \/ r.f.Y < 1 \/ r.f.d > DaysInMonth(r.f.Y, r.f.m)
                \/ r.f.S > 59
        THEN Err("ValueError", "field out of range")
        ELSE Ok(MkDT(r.f.Y, r.f.m, r.f.d, r.f.H, r.f.M, r.f.S, 0, FALSE, 0))

(***************************************************************************)
(* datetime.strftime and datetime.timestamp                                *)
(***************************************************************************)
MonthNames ==
    <<<<"J", "a", "n", "u", "a", "r", "y">>,
      <<"F", "e", "b", "r", "u", "a", "r", "y">>,
      <<"M", "a", "r", "c", "h">>,
      <<"A", "p", "r", "i", "l">>,
      <<"M", "a", "y">>,
      <<"J", "u", "n", "e">>,
      <<"J", "u", "l", "y">>,
      <<"A", "u", "g", "u", "s", "t">>,
      <<"S", "e", "p", "t", "e", "m", "b", "e", "r">>,
      <<"O", "c", "t", "o", "b", "e", "r">>,
      <<"N", "o", "v", "e", "m", "b", "e", "r">>,
      <<"D", "e", "c", "e", "m", "b", "e", "r">>>>

DayNames ==
    <<<<"M", "o", "n", "d", "a", "y">>,
      <<"T", "u", "e", "s", "d", "a", "y">>,
      <<"W", "e", "d", "n", "e", "s", "d", "a", "y">>,
      <<"T", "h", "u", "r", "s", "d", "a", "y">>,
      <<"F", "r", "i", "d", "a", "y">>,
      <<"S", "a", "t", "u", "r", "d", "a", "y">>,
      <<"S", "u", "n", "d", "a", "y">>>>

\* n in decimal, padded with zeros to at least w characters
Pad(n, w) ==
    LET d == NatDigits(n)
    IN  CharsOf(Zeros(IF Len(d) < w THEN w - Len(d) ELSE 0) \o d)

\* what one directive renders (the C locale; glibc does not pad %Y, and
\* leaves a conversion it does not know as it stands)
Directive(dt, c) ==
    LET civ == CivilFromDays(dt.days)
        H   == dt.sod \div 3600
    IN  CASE c = "Y" -> Pad(civ.year, 1)
          [] c = "y" -> Pad(civ.year % 100, 2)
          [] c = "m" -> Pad(civ.month, 2)
          [] c = "d" -> Pad(civ.day, 2)
          [] c = "H" -> Pad(H, 2)
          [] c = "I" -> Pad(((H + 11) % 12) + 1, 2)
          [] c = "p" -> IF H < 12 THEN <<"A", "M">> ELSE <<"P", "M">>
          [] c = "M" -> Pad((dt.sod % 3600) \div 60, 2)
          [] c = "S" -> Pad(dt.sod % 60, 2)
          [] c = "f" -> Pad(dt.us, 6)
          [] c = "B" -> MonthNames[civ.month]
          [] c = "b" -> UpTo(MonthNames[civ.month], 3)
          [] c = "A" -> DayNames[Weekday(dt.days) + 1]
          [] c = "%" -> <<"%">>
          [] OTHER   -> <<"%", c>>

\* date.strftime(fmt), for formats of the directives above
RECURSIVE Strftime(_, _)
Strftime(dt, fmt) ==
    IF Len(fmt) = 0 THEN <<>>
    ELSE IF fmt[1] = "%" /\ Len(fmt) > 1
    THEN Directive(dt, fmt[2]) \o Strftime(dt, From(fmt, 3))
    ELSE <<fmt[1]>> \o Strftime(dt, Tail(fmt))

\* d * k + c for a magnitude d and small k and c
RECURSIVE MulAdd(_, _, _)
MulAdd(d, k, c) ==
    IF Len(d) = 0 THEN (IF c = 0 THEN <<>> ELSE NatDigits(c))
    ELSE LET v == d[Len(d)] * k + c
         IN  MulAdd(UpTo(d, Len(d) - 1), k, v \div 10) \o <<v % 10>>

\* the text of a signed magnitude, str(int)
IntText(neg, d) ==
    (IF neg /\ Mag(d) # <<0>> THEN <<"-">> ELSE <<>>) \o CharsOf(Mag(d))

\* date.timestamp() as <<days, second of day, microsecond>> since the epoch:
\* an aware datetime by its utcoffset, a naive one as local time of the
\* system, whose zone is taken to have the fixed utcoffset sys
Timestamp(dt, sys) ==
    LET u == ShiftWall(dt, IF dt.aware THEN -dt.off ELSE -sys)
    IN  <<u.days, u.sod, u.us>>

\* str(int(date.timestamp())): whole seconds, truncated towards zero
UnixText(ts) ==
    IF ts[1] >= 0
    THEN IntText(FALSE, MulAdd(NatDigits(ts[1]), SecondsPerDay, ts[2]))
    ELSE IntText(TRUE, MulAdd(NatDigits(-ts[1] - 1), SecondsPerDay,
                              SecondsPerDay - ts[2]
                                - (IF ts[3] > 0 THEN 1 ELSE 0)))

\* str(int(date.timestamp() * 1000)): whole milliseconds, truncated towards
\* zero (the product is taken as exact)
UnixMsText(ts) ==
    IF ts[1] >= 0
    THEN IntText(FALSE, MulAdd(MulAdd(NatDigits(ts[1]), SecondsPerDay, ts[2]),
                               1000, ts[3] \div 1000))
    ELSE LET up == (ts[3] + 999) \div 1000
         IN  IF up = 0
             THEN IntText(TRUE, MulAdd(MulAdd(NatDigits(-ts[1] - 1),
                                   SecondsPerDay, SecondsPerDay - ts[2]),
                                   1000, 0))
             ELSE IntText(TRUE, MulAdd(MulAdd(NatDigits(-ts[1] - 1),
                                   SecondsPerDay, SecondsPerDay - ts[2] - 1),
                                   1000, 1000 - up))

(***************************************************************************)
(* class DateTimeFormatter                                                 *)
(***************************************************************************)
\* self.formats as __init__ builds it: a dict keeps its keys in the order
\* of their first insertion
BuiltinFormats ==
    <<
      \* ISO: %Y-%m-%dT%H:%M:%S.%fZ
      [name |-> <<"I", "S", "O">>,
       pattern |-> <<"%", "Y", "-", "%", "m", "-", "%", "d", "T", "%", "H",
                   ":", "%", "M", ":", "%", "S", ".", "%", "f", "Z">>],
      \* ISO_DATE: %Y-%m-%d
      [name |-> <<"I", "S", "O", "_", "D", "A", "T", "E">>,
       pattern |-> <<"%", "Y", "-", "%", "m", "-", "%", "d">>],
      \* ISO_TIME: %H:%M:%S
      [name |-> <<"I", "S", "O", "_", "T", "I", "M", "E">>,
       pattern |-> <<"%", "H", ":", "%", "M", ":", "%", "S">>],
      \* US_DATE: %m/%d/%Y
      [name |-> <<"U", "S", "_", "D", "A", "T", "E">>,
       pattern |-> <<"%", "m", "/", "%", "d", "/", "%", "Y">>],
      \* US_DATETIME: %m/%d/%Y %H:%M:%S
      [name |-> <<"U", "S", "_", "D", "A", "T", "E", "T", "I", "M", "E">>,
       pattern |-> <<"%", "m", "/", "%", "d", "/", "%", "Y", " ", "%", "H",
                   ":", "%", "M", ":", "%", "S">>],
      \* US_SHORT: %m/%d/%y
      [name |-> <<"U", "S", "_", "S", "H", "O", "R", "T">>,
       pattern |-> <<"%", "m", "/", "%", "d", "/", "%", "y">>],
      \* EU_DATE: %d/%m/%Y
      [name |-> <<"E", "U", "_", "D", "A", "T", "E">>,
       pattern |-> <<"%", "d", "/", "%", "m", "/", "%", "Y">>],
      \* EU_DATETIME: %d/%m/%Y %H:%M:%S
      [name |-> <<"E", "U", "_", "D", "A", "T", "E", "T", "I", "M", "E">>,
       pattern |-> <<"%", "d", "/", "%", "m", "/", "%", "Y", " ", "%", "H",
                   ":", "%", "M", ":", "%", "S">>],
      \* READABLE: %B %d, %Y
      [name |-> <<"R", "E", "A", "D", "A", "B", "L", "E">>,
       pattern |-> <<"%", "B", " ", "%", "d", ",", " ", "%", "Y">>],
      \* READABLE_LONG: %A, %B %d, %Y at %H:%M:%S
      [name |-> <<"R", "E", "A", "D", "A", "B", "L", "E", "_", "L", "O", "N",
                "G">>,
       pattern |-> <<"%", "A", ",", " ", "%", "B", " ", "%", "d", ",", " ",
                   "%", "Y", " ", "a", "t", " ", "%", "H", ":", "%", "M", ":",
                   "%", "S">>],
      \* READABLE_SHORT: %b %d, %Y
      [name |-> <<"R", "E", "A", "D", "A", "B", "L", "E", "_", "S", "H", "O",
                "R", "T">>,
       pattern |-> <<"%", "b", " ", "%", "d", ",", " ", "%", "Y">>],
      \* TIME_12: %I:%M:%S %p
      [name |-> <<"T", "I", "M", "E", "_", "1", "2">>,
       pattern |-> <<"%", "I", ":", "%", "M", ":", "%", "S", " ", "%", "p">>],
      \* TIME_24: %H:%M:%S
      [name |-> <<"T", "I", "M", "E", "_", "2", "4">>,
       pattern |-> <<"%", "H", ":", "%", "M", ":", "%", "S">>],
      \* TIME_SHORT: %H:%M
      [name |-> <<"T", "I", "M", "E", "_", "S", "H", "O", "R", "T">>,
       pattern |-> <<"%", "H", ":", "%", "M">>],
      \* LOG_FORMAT: %Y-%m-%d %H:%M:%S
      [name |-> <<"L", "O", "G", "_", "F", "O", "R", "M", "A", "T">>,
       pattern |-> <<"%", "Y", "-", "%", "m", "-", "%", "d", " ", "%", "H",
                   ":", "%", "M", ":", "%", "S">>],
      \* FILENAME: %Y-%m-%d_%H%M%S
      [name |-> <<"F", "I", "L", "E", "N", "A", "M", "E">>,
       pattern |-> <<"%", "Y", "-", "%", "m", "-", "%", "d", "_", "%", "H",
                   "%", "M", "%", "S">>]
    >>

\* self.formats.get(name, default)
Get(fmts, name, default) ==
    IF \E i \in 1..Len(fmts) : fmts[i].name = name
    THEN fmts[CHOOSE i \in 1..Len(fmts) : fmts[i].name = name].pattern
    ELSE default

\* list(self.formats.keys())
Keys(fmts) == [i \in 1..Len(fmts) |-> fmts[i].name]

\* add_custom_format as it would be if a dict did not keep its keys unique:
\* the pair is always added at the end
add_custom_format_appending(fmts, name, pattern) ==
    Append(fmts, [name |-> name, pattern |-> pattern])

\* self.formats[name] = pattern: a key already there keeps its place
add_custom_format(fmts, name, pattern) ==
    IF \E i \in 1..Len(fmts) : fmts[i].name = name
    THEN [i \in 1..Len(fmts) |->
              IF fmts[i].name = name
              THEN [name |-> name, pattern |-> pattern] ELSE fmts[i]]
    ELSE Append(fmts, [name |-> name, pattern |-> pattern])

get_available_formats(fmts) == Keys(fmts)

\* an input of parse_input: None, a datetime, an int or float, a str, or
\* a value of another type
NoneInput == [t |-> "none"]

DatetimeInput(dt) == [t |-> "datetime", dt |-> dt]

NumInput(n) == [t |-> "num", n |-> n]

StrInput(s) == [t |-> "str", s |-> s]

OtherInput == [t |-> "other"]

\* ValueError(f"Unable to parse date: {input_date}")
UnableToParse(input_date) ==
    [ok |-> FALSE, exc |-> "ValueError", msg |-> "Unable to parse date",
     input |-> input_date]

\* common_formats with the day-first templates before the month-first ones
common_formats_day_first ==
    <<
      <<"%", "Y", "-", "%", "m", "-", "%", "d", " ", "%", "H", ":", "%", "M",
        ":", "%", "S">>,
      <<"%", "Y", "-", "%", "m", "-", "%", "d">>,
      <<"%", "d", "/", "%", "m", "/", "%", "Y">>,
      <<"%", "m", "/", "%", "d", "/", "%", "Y">>,
      <<"%", "d", "-", "%", "m", "-", "%", "Y">>,
      <<"%", "m", "-", "%", "d", "-", "%", "Y">>
    >>

common_formats ==
    <<
      <<"%", "Y", "-", "%", "m", "-", "%", "d", " ", "%", "H", ":", "%", "M",
        ":", "%", "S">>,
      <<"%", "Y", "-", "%", "m", "-", "%", "d">>,
      <<"%", "m", "/", "%", "d", "/", "%", "Y">>,
      <<"%", "d", "/", "%", "m", "/", "%", "Y">>,
      <<"%", "m", "-", "%", "d", "-", "%", "Y">>,
      <<"%", "d", "-", "%", "m", "-", "%", "Y">>
    >>

\* the loop over common_formats: the first format strptime accepts
RECURSIVE TryCommonFormats(_, _)
TryCommonFormats(s, fmts) ==
    IF Len(fmts) = 0 THEN UnableToParse(StrInput(s))
    ELSE LET r == Strptime(s, Head(fmts))
         IN  IF r.ok THEN r ELSE TryCommonFormats(s, Tail(fmts))

\* lines 84-108: float(input_date) has returned num
AfterFloat(s, ts) ==
    IF ts.ok THEN ts
    ELSE IF ts.exc # "ValueError" THEN ts
    ELSE TryCommonFormats(s, common_formats)

\* lines 78-108: fromisoformat has returned or raised iso
AfterIso(s, iso, num) ==
    IF iso.ok THEN iso
    ELSE IF num.ok THEN AfterFloat(s, ParseTimestamp(num.v))
    ELSE TryCommonFormats(s, common_formats)

parse_input(input_date) ==
    IF input_date.t = "none"
    THEN Err("ValueError", "Input date is required")
    ELSE IF input_date.t = "datetime" THEN Ok(input_date.dt)
    ELSE IF input_date.t = "num" THEN ParseTimestamp(input_date.n)
    ELSE IF input_date.t = "str"
    THEN AfterIso(input_date.s, FromIsoFormat(ReplaceZ(input_date.s)),
                  ParseFloat(input_date.s))
    ELSE UnableToParse(input_date)

\* the zones pytz knows, among the names the model uses, with the utcoffset
\* each has had without change since 1970
ZoneNames == {"UTC", "Asia/Kolkata", "America/Phoenix"}

ZoneOffset(name) ==
    CASE name = "UTC" -> 0
      [] name = "Asia/Kolkata" -> 19800
      [] name = "America/Phoenix" -> -25200

UnknownTimeZone == Err("UnknownTimeZoneError", "unknown zone")

\* lines 120-130: the conversion of format to the target zone; "" stands
\* for a timezone_name of None, which like '' gives way to the default
ToTargetZone(date, deflt, has_pytz, timezone_name) ==
    LET target_timezone == IF timezone_name # "" THEN timezone_name ELSE deflt
    IN  IF target_timezone # "" /\ target_timezone # "local"
        THEN IF has_pytz
             THEN IF target_timezone \notin ZoneNames THEN UnknownTimeZone
                  ELSE AsTimezone(IF ~date.aware THEN ReplaceUTC(date) ELSE date,
                                  ZoneOffset(target_timezone))
             ELSE IF target_timezone = "UTC" /\ ~date.aware
                  THEN Ok(ReplaceUTC(date))
                  ELSE Ok(date)
        ELSE Ok(date)

UNIX == <<"U", "N", "I", "X">>

UNIX_MS == <<"U", "N", "I", "X", "_", "M", "S">>

\* Render as it would be with self.formats.get(pattern, self.formats['ISO']):
\* a name that is no key rendered with the ISO pattern
RenderWithIsoDefault(fmts, date, pattern, sys) ==
    IF pattern = UNIX THEN UnixText(Timestamp(date, sys))
    ELSE IF pattern = UNIX_MS THEN UnixMsText(Timestamp(date, sys))
    ELSE Strftime(date, Get(fmts, pattern, Get(fmts, <<"I", "S", "O">>, pattern)))

\* lines 132-141: the pattern looked up, and the date rendered
Render(fmts, date, pattern, sys) ==
    LET format_pattern == Get(fmts, pattern, pattern)
    IN  IF pattern = UNIX THEN UnixText(Timestamp(date, sys))
        ELSE IF pattern = UNIX_MS THEN UnixMsText(Timestamp(date, sys))
        ELSE Strftime(date, format_pattern)

\* raise ValueError(f"Formatting failed: {str(error)}")
FormattingFailed(error) ==
    [ok |-> FALSE, exc |-> "ValueError", msg |-> "Formatting failed",
     cause |-> error.exc]

\* lines 132-141, or the failure of the conversion wrapped
FormatConverted(fmts, date, pattern, sys) ==
    IF ~date.ok THEN FormattingFailed(date)
    ELSE Ok(Render(fmts, date.v, pattern, sys))

FormatParsed(fmts, deflt, has_pytz, sys, parsed, pattern, timezone_name) ==
    IF ~parsed.ok THEN FormattingFailed(parsed)
    ELSE FormatConverted(fmts,
                         ToTargetZone(parsed.v, deflt, has_pytz, timezone_name),
                         pattern, sys)

\* sys: the utcoffset of the system's local zone, which timestamp() reads
format(fmts, deflt, has_pytz, sys, input_date, pattern, timezone_name) ==
    FormatParsed(fmts, deflt, has_pytz, sys, parse_input(input_date),
                 pattern, timezone_name)

ConvertParsed(has_pytz, parsed, to_timezone) ==
    IF ~parsed.ok THEN parsed
    ELSE IF ~has_pytz
    THEN IF to_timezone = "UTC" THEN Ok(ReplaceUTC(parsed.v)) ELSE Ok(parsed.v)
    ELSE IF to_timezone \notin ZoneNames THEN UnknownTimeZone
    ELSE AsTimezone(IF ~parsed.v.aware THEN ReplaceUTC(parsed.v) ELSE parsed.v,
                    ZoneOffset(to_timezone))

convert_timezone(has_pytz, input_date, to_timezone) ==
    ConvertParsed(has_pytz, parse_input(input_date), to_timezone)

\* the try / except of is_valid_date around the result r of parse_input
ValidIf(r) ==
    IF r.ok THEN Ok(TRUE)
    ELSE IF r.exc \in {"ValueError", "TypeError"} THEN Ok(FALSE)
    ELSE r

is_valid_date(input_date) == ValidIf(parse_input(input_date))

(***************************************************************************)
(* get_relative_time and format_duration                                   *)
(***************************************************************************)
Minute == 60

Hour == 3600

Day == 86400

Week == 604800

Month == 2592000

Year == 31536000

MicrosPerSecond == 1000000

\* f"{n} {unit}{'s' if n != 1 else ''}"
Counted(n, unit) == ToString(n) \o " " \o unit \o (IF n # 1 THEN "s" ELSE "")

\* base - date as a timedelta: whole seconds (floored) and microseconds
Minus(base, date) ==
    LET secs == (base.days - date.days) * SecondsPerDay
                + (base.sod - base.off) - (date.sod - date.off)
        us   == base.us - date.us
    IN  IF us < 0 THEN [secs |-> secs - 1, us |-> us + MicrosPerSecond]
        ELSE [secs |-> secs, us |-> us]

\* abs(diff.total_seconds()), as whole seconds and microseconds
AbsSeconds(diff) ==
    IF diff.secs >= 0 THEN diff
    ELSE IF diff.us = 0 THEN [secs |-> -diff.secs, us |-> 0]
    ELSE [secs |-> -diff.secs - 1, us |-> MicrosPerSecond - diff.us]

\* Phrase as it would be with <= for < in the comparisons: a distance of
\* exactly one unit counted in the smaller unit
PhraseInclusive(total_seconds, suffix) ==
    IF total_seconds <= Minute THEN "just now"
    ELSE IF total_seconds <= Hour
    THEN Counted(total_seconds \div Minute, "minute") \o " " \o suffix
    ELSE IF total_seconds <= Day
    THEN Counted(total_seconds \div Hour, "hour") \o " " \o suffix
    ELSE IF total_seconds <= Week
    THEN Counted(total_seconds \div Day, "day") \o " " \o suffix
    ELSE IF total_seconds <= Month
    THEN Counted(total_seconds \div Week, "week") \o " " \o suffix
    ELSE IF total_seconds <= Year
    THEN Counted(total_seconds \div Month, "month") \o " " \o suffix
    ELSE Counted(total_seconds \div Year, "year") \o " " \o suffix

\* lines 198-217: the phrase for a distance of total_seconds
Phrase(total_seconds, suffix) ==
    IF total_seconds < Minute THEN "just now"
    ELSE IF total_seconds < Hour
    THEN Counted(total_seconds \div Minute, "minute") \o " " \o suffix
    ELSE IF total_seconds < Day
    THEN Counted(total_seconds \div Hour, "hour") \o " " \o suffix
    ELSE IF total_seconds < Week
    THEN Counted(total_seconds \div Day, "day") \o " " \o suffix
    ELSE IF total_seconds < Month
    THEN Counted(total_seconds \div Week, "week") \o " " \o suffix
    ELSE IF total_seconds < Year
    THEN Counted(total_seconds \div Month, "month") \o " " \o suffix
    ELSE Counted(total_seconds \div Year, "year") \o " " \o suffix

\* lines 192-196: is_future and suffix of diff = base - date
Describe(diff) ==
    Phrase(AbsSeconds(diff).secs, IF diff.secs < 0 THEN "from now" ELSE "ago")

\* lines 187-190: a naive datetime is taken as UTC
AsUTCIfNaive(dt) == IF ~dt.aware THEN ReplaceUTC(dt) ELSE dt

RelativeTo(parsed, base) ==
    IF ~parsed.ok THEN parsed
    ELSE Ok(Describe(Minus(AsUTCIfNaive(base), AsUTCIfNaive(parsed.v))))

\* base_date: [some |-> FALSE] for None, else [some |-> TRUE, dt |-> ...];
\* now: what datetime.now(timezone.utc) returns
get_relative_time(input_date, base_date, now) ==
    RelativeTo(parse_input(input_date),
               IF base_date.some THEN base_date.dt ELSE now)

units ==
    << [name |-> "year", seconds |-> Year],
       [name |-> "month", seconds |-> Month],
       [name |-> "week", seconds |-> Week],
       [name |-> "day", seconds |-> Day],
       [name |-> "hour", seconds |-> Hour],
       [name |-> "minute", seconds |-> Minute],
       [name |-> "second", seconds |-> 1] >>

\* DurationParts as it would be with > for >= in the loop: a duration of
\* exactly one unit counted in the smaller units
RECURSIVE DurationPartsStrict(_, _, _)
DurationPartsStrict(seconds, us, parts) ==
    IF Len(us) = 0 THEN parts
    ELSE IF seconds > Head(us).seconds
    THEN DurationPartsStrict(seconds % Head(us).seconds, Tail(us),
                             Append(parts,
                                    Counted(seconds \div Head(us).seconds,
                                            Head(us).name)))
    ELSE DurationPartsStrict(seconds, Tail(us), parts)

\* the loop over units: the parts, with the seconds left after each unit
RECURSIVE DurationParts(_, _, _)
DurationParts(seconds, us, parts) ==
    IF Len(us) = 0 THEN parts
    ELSE IF seconds >= Head(us).seconds
    THEN DurationParts(seconds % Head(us).seconds, Tail(us),
                       Append(parts, Counted(seconds \div Head(us).seconds,
                                             Head(us).name)))
    ELSE DurationParts(seconds, Tail(us), parts)

\* ', '.join(parts)
RECURSIVE JoinComma(_)
JoinComma(parts) ==
    IF Len(parts) = 0 THEN ""
    ELSE IF Len(parts) = 1 THEN parts[1]
    ELSE parts[1] \o ", " \o JoinComma(Tail(parts))

RECURSIVE format_duration(_)
format_duration(seconds) ==
    IF seconds < 0 THEN "-" \o format_duration(-seconds)
    ELSE LET parts == DurationParts(seconds, units, <<>>)
         IN  IF Len(parts) = 0 THEN "0 seconds"
             ELSE IF Len(parts) = 1 THEN parts[1]
             ELSE IF Len(parts) = 2 THEN parts[1] \o " and " \o parts[2]
             ELSE JoinComma(SubSeq(parts, 1, Len(parts) - 1))
                  \o ", and " \o parts[Len(parts)]

(***************************************************************************)
(* The inputs the calls are made with                                      *)
(***************************************************************************)
\* the largest count of one unit in a sampled duration or distance in time
MaxCount == 2

\* the most registrations made on one formatter
MaxRegistrations == 2

\* ISO-8601 date-times: naive, with Z, with offsets, with fractions
IsoTexts ==
    { <<"2", "0", "2", "2", "-", "0", "1", "-", "0", "1", "T", "1", "2", ":", "0", "0", ":", "0", "0">>,
      <<"2", "0", "2", "2", "-", "0", "1", "-", "0", "1", "T", "1", "2", ":", "0", "0", ":", "0", "0", "Z">>,
      <<"2", "0", "2", "2", "-", "0", "1", "-", "0", "1", "T", "1", "2", ":", "0", "0", ":", "0", "0", "+", "0", "5", ":", "0", "0">>,
      <<"2", "0", "2", "2", "-", "0", "6", "-", "1", "5", "T", "2", "3", ":", "3", "0", ":", "0", "0", ".", "2", "5", "0", "0", "0", "0", "-", "0", "7", ":", "0", "0">>,
      <<"2", "0", "2", "2", "-", "0", "1", "-", "0", "1", "T", "0", "0", ":", "3", "0", ":", "0", "0", ".", "5", "+", "0", "5", ":", "3", "0">>,
      <<"2", "0", "2", "4", "-", "0", "2", "-", "2", "9", "T", "2", "3", ":", "5", "9", ":", "5", "9", ".", "9", "9", "9", "9", "9", "9", "Z">> }

\* day and month fields, padded and not, in and out of range
FieldTexts ==
    { <<"1">>,
      <<"0", "1">>,
      <<"2">>,
      <<"0", "2">>,
      <<"1", "2">>,
      <<"1", "3">>,
      <<"2", "9">>,
      <<"3", "0">>,
      <<"3", "1">> }

\* a sep b sep 2022 and 2022 - a - b for all fields a, b
FieldDates ==
    UNION { { a \o <<sep>> \o b \o <<sep, "2", "0", "2", "2">> :
                sep \in {"/", "-"} }
            \cup { <<"2", "0", "2", "2", "-">> \o a \o <<"-">> \o b }
          : a \in FieldTexts, b \in FieldTexts }

NumericTexts ==
    { <<"1", "6", "4", "0", "9", "9", "5", "2", "0", "0">>,
      <<"9", "9", "9", "9", "9", "9", "9", "9", "9", "9", "9", "9">>,
      <<"1", "0", "0", "0", "0", "0", "0", "0", "0", "0", "0", "0", "0">>,
      <<"1", "0", "0", "0", "0", "0", "0", "0", "0", "0", "0", "0", "1">>,
      <<"1", "6", "4", "0", "9", "9", "5", "2", "0", "0", ".", "5">>,
      <<"1", "e", "4", "0", "0">>,
      <<"1", "e", "2", "2">>,
      <<"1", "e", "2", "0">>,
      <<"i", "n", "f">>,
      <<"n", "a", "n">>,
      <<"-", "1">>,
      <<"1", "_", "0", "0", "0">>,
      <<" ", "1", "2", " ">> }

OtherTexts ==
    { <<"i", "n", "v", "a", "l", "i", "d">>,
      <<"n", "o", "t", " ", "a", " ", "d", "a", "t", "e">>,
      << >>,
      <<"Z">>,
      <<"2", "0", "2", "2", "-", "0", "1", "-", "0", "1", " ", "1", ":", "2", ":", "3">>,
      <<"2", "0", "2", "2", "-", "1", "-", "1", " ", "1", "0", ":", "0", "0", ":", "0", "0">>,
      <<"2", "0", "2", "2", "-", "0", "1", "-", "0", "1", " ", "2", "3", ":", "5", "9", ":", "6", "0">>,
      <<"0", "1", "/", "0", "2", "/", "2", "0", "2", "2", " ">>,
      <<"0", "1", "/", "0", "2", "/", "2", "0", "2", "2", "5">>,
      <<"2", "0", "2", "2", "-", "0", "2", "-", "3", "0">> }

Texts == IsoTexts \cup FieldDates \cup NumericTexts \cup OtherTexts

\* ints: around the epoch, the 1e12 threshold, the ends of datetime's range
\* in seconds and in milliseconds, and beyond gmtime, time_t and float
IntSamples ==
    { IntNum(FALSE, <<0>>), IntNum(FALSE, <<1>>), IntNum(TRUE, <<1>>),
      IntNum(FALSE, <<1,6,4,0,9,9,5,2,0,0>>),
      IntNum(FALSE, <<1,6,4,0,9,9,5,2,0,0,1,2,3>>),
      IntNum(FALSE, <<2,5,3,4,0,2,3,0,0,7,9,9>>),
      IntNum(FALSE, <<2,5,3,4,0,2,3,0,0,8,0,0>>),
      IntNum(FALSE, <<9,9,9,9,9,9,9,9,9,9,9,9>>),
      IntNum(FALSE, E12),
      IntNum(FALSE, MagInc(E12)),
      IntNum(FALSE, <<2,5,3,4,0,2,3,0,0,7,9,9,9,9,9>>),
      IntNum(FALSE, <<2,5,3,4,0,2,3,0,0,8,0,0,0,0,0>>),
      IntNum(TRUE, <<6,2,1,3,5,5,9,6,8,0,0>>),
      IntNum(TRUE, <<6,2,1,3,5,5,9,6,8,0,1>>),
      IntNum(FALSE, <<1>> \o Zeros(20)),
      IntNum(FALSE, <<1>> \o Zeros(22)),
      IntNum(FALSE, <<1>> \o Zeros(400)) }

FloatSamples ==
    { Num("float", FALSE, <<1,6,4,0,9,9,5,2,0,0>>, 500000),
      Num("float", TRUE, <<0>>, 500000),
      Num("float", FALSE, E12, 0),
      Num("float", FALSE, E12, 500000),
      Inf(FALSE), Inf(TRUE), NaN }

\* the datetimes the ISO texts denote
Datetimes == { FromIsoFormat(ReplaceZ(s)).v : s \in IsoTexts }

ResolveInputs ==
    {NoneInput, OtherInput}
    \cup { NumInput(n) : n \in IntSamples \cup FloatSamples }
    \cup { StrInput(s) : s \in Texts }
    \cup { DatetimeInput(d) : d \in Datetimes }

FormatInputs ==
    { DatetimeInput(d) : d \in Datetimes }
    \cup { StrInput(s) : s \in IsoTexts }
    \cup { NoneInput, NumInput(IntNum(FALSE, <<1,6,4,0,9,9,5,2,0,0>>)),
           StrInput(<<"i", "n", "v", "a", "l", "i", "d">>) }

\* names that are no key of the built-in registry
CustomNames ==
    { <<"c", "u", "s", "t", "o", "m">>,
      <<"F", "O", "O">>,
      <<"%", "Y", "/", "%", "m", "/", "%", "d">>,
      <<"%", "d", ".", "%", "m", ".", "%", "Y", " ", "%", "H", ":", "%", "M">> }

CustomPatterns ==
    { <<"%", "d", ".", "%", "m", ".", "%", "Y">>,
      <<"%", "H", ":", "%", "M">> }

\* the registrations made: (name, pattern) pairs, of a new name twice, of a
\* special name and of a built-in name
Registrations ==
    ({ <<"c", "u", "s", "t", "o", "m">> } \X CustomPatterns)
    \cup { <<UNIX, <<"%", "H", ":", "%", "M">> >>,
           << <<"I", "S", "O">>, <<"%", "Y">> >> }

PatternNames ==
    { BuiltinFormats[i].name : i \in 1..Len(BuiltinFormats) }
    \cup {UNIX, UNIX_MS} \cup CustomNames

\* timezone_name: "" for None; a name pytz does not know; 'local'
TimezoneNames == {"", "Asia/Kolkata", "Mars/Phobos", "local"}

ToTimezones == {"UTC", "Asia/Kolkata", "America/Phoenix", "Mars/Phobos"}

\* the utcoffset of the system's local zone
SystemOffsets == {0, 3600}

\* durations: every sum of at most MaxCount of each unit, and its negative
RECURSIVE DurationSums(_)
DurationSums(us) ==
    IF Len(us) = 0 THEN {0}
    ELSE { k * Head(us).seconds + r :
             k \in 0..MaxCount, r \in DurationSums(Tail(us)) }

DurationSamples ==
    DurationSums(units) \cup { -n : n \in DurationSums(units) }
    \cup {45, 90, -90}

\* distances in time: around every multiple, up to MaxCount, of every unit
Distances ==
    {0, 1, 45}
    \cup { k * units[i].seconds + e :
             i \in 1..(Len(units) - 1), k \in 1..MaxCount, e \in {-1, 0, 1} }

BaseDatetimes ==
    { MkDT(2022, 1, 1, 12, 0, 0, 0, TRUE, 0),
      MkDT(2022, 6, 15, 0, 0, 0, 500000, FALSE, 0),
      MkDT(2024, 2, 29, 23, 59, 59, 0, TRUE, 19800) }

\* the datetime at distance delta seconds and us microseconds before base,
\* with tzinfo as given
Before(base, delta, us, aware, off) ==
    LET t == Minus(base, DT(0, delta, us, TRUE, 0))
    IN  ShiftWall(DT(0, 0, t.us, aware, off), t.secs + off)

(***************************************************************************)
(* The formatter: its state after __init__, and its methods as actions     *)
(***************************************************************************)
Init ==
    /\ formats = BuiltinFormats
    /\ default_timezone = "UTC"
    /\ HAS_PYTZ \in BOOLEAN
    /\ log = << >>
    /\ op = "idle"
    /\ arg = << >>
    /\ ret = Ok("None")

\* the caller takes the result of a call; the next call can then be made
Return ==
    /\ op # "idle"
    /\ op' = "idle"
    /\ arg' = << >>
    /\ ret' = Ok("None")
    /\ UNCHANGED <<formats, default_timezone, HAS_PYTZ, log>>

CallParseInput ==
    \E x \in ResolveInputs :
        /\ op = "idle"
        /\ op' = "parse_input"
        /\ arg' = [input_date |-> x]
        /\ ret' = parse_input(x)
        /\ UNCHANGED <<formats, default_timezone, HAS_PYTZ, log>>

CallIsValidDate ==
    \E x \in ResolveInputs :
        /\ op = "idle"
        /\ op' = "is_valid_date"
        /\ arg' = [input_date |-> x]
        /\ ret' = is_valid_date(x)
        /\ UNCHANGED <<formats, default_timezone, HAS_PYTZ, log>>

CallFormat ==
    \E x \in FormatInputs, pattern \in PatternNames,
       tz \in TimezoneNames, sys \in SystemOffsets :
        /\ op = "idle"
        /\ op' = "format"
        /\ arg' = [input_date |-> x, pattern |-> pattern, timezone_name |-> tz]
        /\ ret' = format(formats, default_timezone, HAS_PYTZ, sys, x, pattern, tz)
        /\ UNCHANGED <<formats, default_timezone, HAS_PYTZ, log>>

CallConvertTimezone ==
    \E x \in FormatInputs, tz \in ToTimezones :
        /\ op = "idle"
        /\ op' = "convert_timezone"
        /\ arg' = [input_date |-> x, to_timezone |-> tz]
        /\ ret' = convert_timezone(HAS_PYTZ, x, tz)
        /\ UNCHANGED <<formats, default_timezone, HAS_PYTZ, log>>

CallGetAvailableFormats ==
    /\ op = "idle"
    /\ op' = "get_available_formats"
    /\ arg' = << >>
    /\ ret' = Ok(get_available_formats(formats))
    /\ UNCHANGED <<formats, default_timezone, HAS_PYTZ, log>>

CallAddCustomFormat ==
    \E r \in Registrations :
        /\ op = "idle"
        /\ Len(log) < MaxRegistrations
        /\ formats' = add_custom_format(formats, r[1], r[2])
        /\ log' = Append(log, r)
        /\ op' = "add_custom_format"
        /\ arg' = [name |-> r[1], pattern |-> r[2]]
        /\ ret' = Ok("None")
        /\ UNCHANGED <<default_timezone, HAS_PYTZ>>

CallGetRelativeTime ==
    \E base \in BaseDatetimes, given \in BOOLEAN, delta \in Distances,
       future \in BOOLEAN, us \in {0, 250000},
       tz \in {<<FALSE, 0>>, <<TRUE, 0>>, <<TRUE, -25200>>} :
        LET d == IF future THEN -delta ELSE delta
            x == DatetimeInput(Before(base, d, IF future THEN 0 ELSE us,
                                      tz[1], tz[2]))
            b == IF given THEN [some |-> TRUE, dt |-> base]
                 ELSE [some |-> FALSE]
            now == ReplaceUTC(ShiftWall(base, -base.off))
        IN  /\ op = "idle"
            /\ op' = "get_relative_time"
            /\ arg' = [input_date |-> x, base_date |-> b, now |-> now]
            /\ ret' = get_relative_time(x, b, now)
            /\ UNCHANGED <<formats, default_timezone, HAS_PYTZ, log>>

CallFormatDuration ==
    \E n \in DurationSamples :
        /\ op = "idle"
        /\ op' = "format_duration"
        /\ arg' = [seconds |-> n]
        /\ ret' = Ok(format_duration(n))
        /\ UNCHANGED <<formats, default_timezone, HAS_PYTZ, log>>

Next ==
    \/ CallParseInput
    \/ CallIsValidDate
    \/ CallFormat
    \/ CallConvertTimezone
    \/ CallGetAvailableFormats
    \/ CallAddCustomFormat
    \/ CallGetRelativeTime
    \/ CallFormatDuration
    \/ Return

Spec == Init /\ [][Next]_vars

\* the Input Resolver alone
NextResolve == CallParseInput \/ CallIsValidDate \/ Return

SpecResolve == Init /\ [][NextResolve]_vars

\* the registry, pattern formatting and zone conversion
NextFormat ==
    \/ CallFormat
    \/ CallConvertTimezone
    \/ CallGetAvailableFormats
    \/ CallAddCustomFormat
    \/ Return

SpecFormat == Init /\ [][NextFormat]_vars

\* the two humanizers
NextHuman == CallGetRelativeTime \/ CallFormatDuration \/ Return

SpecHuman == Init /\ [][NextHuman]_vars

(***************************************************************************)
(* Properties of the Input Resolver, checked under SpecResolve             *)
(***************************************************************************)
\* the number parse_input reads its input as: the int or float itself, or
\* the float of a string that fromisoformat rejects
NumericReading(x) ==
    IF x.t = "num" THEN Ok(x.n)
    ELSE IF x.t = "str" /\ ~FromIsoFormat(ReplaceZ(x.s)).ok
    THEN ParseFloat(x.s)
    ELSE Err("TypeError", "not a number")

\* C1: for every numeric input n (an int or float, or a string that fails
\* fromisoformat and parses as a float) parse_input succeeds and returns an
\* aware datetime in UTC, whose point in time is n milliseconds after the
\* epoch when n > 10^12 and n seconds after the epoch otherwise (so
\* 999999999999 is 999999999999 seconds after the epoch).
C1_NumericInputResolves ==
    op = "parse_input" /\ NumericReading(arg.input_date).ok =>
        LET n == NumericReading(arg.input_date).v
        IN  /\ ret.ok
            /\ ret.v.aware
            /\ ret.v.off = 0
            /\ n.k \in {"int", "float"} /\ ~n.neg /\ n.us = 0 =>
                   IF GreaterThan1e12(n)
                   THEN UnixMsText(AbsTime(ret.v)) = CharsOf(n.d)
                   ELSE UnixText(AbsTime(ret.v)) = CharsOf(n.d)

\* C2: is_valid_date raises for no input: it returns True exactly when
\* parse_input returns a datetime, and False whenever parse_input fails.
C2_IsValidNeverRaises ==
    op = "is_valid_date" =>
        /\ ret.ok
        /\ ret.v = parse_input(arg.input_date).ok

\* the templates in the order the fallback is to try them
TemplateOrder ==
    << <<"%", "Y", "-", "%", "m", "-", "%", "d", " ", "%", "H", ":", "%", "M",
         ":", "%", "S">>,
       <<"%", "Y", "-", "%", "m", "-", "%", "d">>,
       <<"%", "m", "/", "%", "d", "/", "%", "Y">>,
       <<"%", "d", "/", "%", "m", "/", "%", "Y">>,
       <<"%", "m", "-", "%", "d", "-", "%", "Y">>,
       <<"%", "d", "-", "%", "m", "-", "%", "Y">> >>

\* midnight, naive, of a day of 2022
DayOf2022(m, d) == Ok(MkDT(2022, m, d, 0, 0, 0, 0, FALSE, 0))

\* C8: a string that fromisoformat and float both reject is resolved by the
\* first template, in the order of TemplateOrder, that strptime accepts for
\* the whole string, and fails when there is none; so a/b/2022 and a-b-2022
\* are month a, day b whenever that is a date, and day a, month b only when
\* the month-first reading is rejected.
C8_FirstTemplateWins ==
    op = "parse_input" /\ arg.input_date.t = "str"
      /\ ~FromIsoFormat(ReplaceZ(arg.input_date.s)).ok
      /\ ~ParseFloat(arg.input_date.s).ok =>
        LET s == arg.input_date.s
            matching == { i \in 1..Len(TemplateOrder) :
                            Strptime(s, TemplateOrder[i]).ok }
            first == CHOOSE i \in matching : \A j \in matching : i <= j
        IN  /\ ret.ok <=> matching # {}
            /\ ret.ok => ret = Strptime(s, TemplateOrder[first])
            /\ \A a \in FieldTexts, b \in FieldTexts, sep \in {"/", "-"} :
                 s = a \o <<sep>> \o b \o <<sep, "2", "0", "2", "2">> =>
                   LET va == SmallVal(DigitsOf(a))
                       vb == SmallVal(DigitsOf(b))
                   IN  IF va \in 1..12 /\ vb \in 1..DaysInMonth(2022, va)
                       THEN ret = DayOf2022(va, vb)
                       ELSE IF vb \in 1..12 /\ va \in 1..DaysInMonth(2022, vb)
                       THEN ret = DayOf2022(vb, va)
                       ELSE ~ret.ok

\* "01/02/2022" has been resolved, to 2 January 2022
C8_Witness ==
    /\ op = "parse_input"
    /\ arg.input_date
         = StrInput(<<"0", "1", "/", "0", "2", "/", "2", "0", "2", "2">>)
    /\ ret = DayOf2022(1, 2)

\* C9: parse_input fails with 'Input date is required' exactly for None, and
\* every other failure is 'Unable to parse date' carrying the input: no
\* other exception leaves parse_input.
C9_OnlyTwoFailureKinds ==
    op = "parse_input" =>
        /\ arg.input_date.t = "none" <=>
             (~ret.ok /\ ret.exc = "ValueError"
                /\ ret.msg = "Input date is required")
        /\ ~ret.ok /\ arg.input_date.t # "none" =>
             ret = UnableToParse(arg.input_date)

(***************************************************************************)
(* Properties of format, the registry and convert_timezone, checked under  *)
(* SpecFormat                                                              *)
(***************************************************************************)
IsoName == <<"I", "S", "O">>

\* the datetime a call of format renders: its input resolved and taken to
\* the target zone
RenderedDate ==
    ToTargetZone(parse_input(arg.input_date).v, default_timezone, HAS_PYTZ,
                 arg.timezone_name)

\* name is neither special nor a key of the registry
UnknownName(name) ==
    /\ name \notin {UNIX, UNIX_MS}
    /\ \A i \in 1..Len(formats) : formats[i].name # name

C4_IsoRoundTrip ==
    op = "format" /\ arg.pattern = IsoName /\ arg.timezone_name = ""
      /\ arg.input_date.t = "datetime"
      /\ Get(formats, IsoName, <<>>) = Get(BuiltinFormats, IsoName, <<>>) =>
        /\ ret.ok
        /\ parse_input(StrInput(ret.v)).ok
        /\ AbsTime(parse_input(StrInput(ret.v)).v)
             = AbsTime(arg.input_date.dt)

\* the names registered so far
RegisteredNames == { log[i][1] : i \in 1..Len(log) }

\* the pattern of the latest registration of name
LastRegistered(name) ==
    log[CHOOSE i \in 1..Len(log) :
            /\ log[i][1] = name
            /\ \A j \in (i + 1)..Len(log) : log[j][1] # name][2]

BuiltinNames == [i \in 1..Len(BuiltinFormats) |-> BuiltinFormats[i].name]

\* the names of the registrations l outside seen, each once, in the order
\* of their first registration
RECURSIVE NewNames(_, _)
NewNames(l, seen) ==
    IF Len(l) = 0 THEN << >>
    ELSE IF Head(l)[1] \in seen THEN NewNames(Tail(l), seen)
    ELSE <<Head(l)[1]>> \o NewNames(Tail(l), seen \cup {Head(l)[1]})

\* after the registrations of log: get_available_formats returns the
\* built-in names and then the new names, each once, in the order of first
\* insertion; format with a registered name outside exempt renders with
\* the pattern registered last under that name
RegistryFollowsLog(exempt) ==
    /\ op = "get_available_formats" =>
         ret = Ok(BuiltinNames
                    \o NewNames(log, { BuiltinNames[i] :
                                         i \in 1..Len(BuiltinNames) }))
    /\ op = "format" /\ parse_input(arg.input_date).ok
         /\ arg.pattern \in RegisteredNames \ exempt =>
           /\ ret.ok <=> RenderedDate.ok
           /\ ret.ok =>
                ret.v = Strftime(RenderedDate.v, LastRegistered(arg.pattern))

\* C5, as the claim has it: after any registrations, format with any
\* registered name renders with the pattern registered last under it, and
\* get_available_formats has every built-in and registered name once, in
\* the order of first insertion.
C5_RegisteredPatternIsUsed == RegistryFollowsLog({})

\* C5, amended: after any registrations, format with any registered name
\* other than UNIX and UNIX_MS renders with the pattern registered last
\* under it (UNIX and UNIX_MS stay timestamps whatever is registered), and
\* get_available_formats has every built-in and registered name once, in
\* the order of first insertion.
C5_RegisteredPatternIsUsedUnlessSpecial == RegistryFollowsLog({UNIX, UNIX_MS})

\* a name has been registered twice with different patterns, and format
\* with that name has rendered with the second
C5_Witness ==
    /\ op = "format"
    /\ Len(log) = 2
    /\ log[1][1] = log[2][1]
    /\ log[1][2] # log[2][2]
    /\ arg.pattern = log[1][1]
    /\ parse_input(arg.input_date).ok
    /\ ret.ok
    /\ ret.v = Strftime(RenderedDate.v, log[2][2])
    /\ ret.v # Strftime(RenderedDate.v, log[1][2])

\* C10: for an input that resolves to an aware datetime and any zone name,
\* with or without pytz, the datetime convert_timezone returns is the same
\* point in time as the one parse_input returns.
C10_ConvertKeepsThePointInTime ==
    op = "convert_timezone" /\ parse_input(arg.input_date).ok
      /\ parse_input(arg.input_date).v.aware /\ ret.ok =>
        AbsTime(ret.v) = AbsTime(parse_input(arg.input_date).v)

(***************************************************************************)
(* Properties of get_relative_time and format_duration, checked under      *)
(* SpecHuman                                                               *)
(***************************************************************************)
\* the sizes of the units in seconds, and their names, largest first
UnitSizes == <<31536000, 2592000, 604800, 86400, 3600, 60, 1>>

UnitNames == <<"year", "month", "week", "day", "hour", "minute", "second">>

\* "<c> <unit>", the unit with an s unless c is 1
CountOf(c, i) ==
    ToString(c) \o " " \o UnitNames[i] \o (IF c = 1 THEN "" ELSE "s")

\* base - target of a call of get_relative_time, in whole seconds and in
\* microseconds of the same sign
Delta ==
    LET b == AbsTime(IF arg.base_date.some THEN arg.base_date.dt ELSE arg.now)
        d == AbsTime(arg.input_date.dt)
        whole == (b[1] - d[1]) * 86400 + (b[2] - d[2])
        frac == b[3] - d[3]
    IN  IF whole > 0 /\ frac < 0 THEN <<whole - 1, frac + 1000000>>
        ELSE IF whole < 0 /\ frac > 0 THEN <<whole + 1, frac - 1000000>>
        ELSE <<whole, frac>>

\* the bucket of a distance of m whole seconds: the unit counted
BucketOf(m) ==
    IF m < 3600 THEN 6
    ELSE IF m < 86400 THEN 5
    ELSE IF m < 604800 THEN 4
    ELSE IF m < 2592000 THEN 3
    ELSE IF m < 31536000 THEN 2
    ELSE 1

\* C6: with delta = base - target and m = |delta|, get_relative_time
\* returns "just now" when m < 60 and otherwise "<c> <unit>[s] <suffix>",
\* the unit that of the first bucket m is below (a boundary value is in
\* the bucket of the larger unit), c = floor(m / unit), the s there unless
\* c is 1, the suffix "from now" when delta < 0 and "ago" otherwise.
C6_RelativeTimeTable ==
    op = "get_relative_time" =>
        LET future == Delta[1] < 0 \/ Delta[2] < 0
            m == IF Delta[1] < 0 THEN -Delta[1] ELSE Delta[1]
            i == BucketOf(m)
        IN  /\ ret.ok
            /\ ret.v = IF m < 60 THEN "just now"
                       ELSE CountOf(m \div UnitSizes[i], i) \o " "
                              \o (IF future THEN "from now" ELSE "ago")

\* a target exactly one hour before the base has given "1 hour ago"
C6_Witness ==
    /\ op = "get_relative_time"
    /\ Delta = <<3600, 0>>
    /\ ret = Ok("1 hour ago")

\* the seconds of n left when unit i has its turn, and the count of unit i
RECURSIVE LeftAt(_, _)
LeftAt(n, i) == IF i = 1 THEN n ELSE LeftAt(n, i - 1) % UnitSizes[i - 1]

CountAt(n, i) == LeftAt(n, i) \div UnitSizes[i]

\* the units of non-zero count in n, largest first
Contributing(n) ==
    SelectSeq([i \in 1..Len(UnitSizes) |-> i], LAMBDA i : CountAt(n, i) # 0)

RECURSIVE SumOfCounts(_, _)
SumOfCounts(n, i) ==
    IF i = 0 THEN 0
    ELSE CountAt(n, i) * UnitSizes[i] + SumOfCounts(n, i - 1)

\* the parts from the k-th on, each after a comma, ", and " before the last
RECURSIVE Listed(_, _, _)
Listed(n, c, k) ==
    IF k > Len(c) THEN ""
    ELSE (IF k = 1 THEN "" ELSE IF k = Len(c) THEN ", and " ELSE ", ")
           \o CountOf(CountAt(n, c[k]), c[k]) \o Listed(n, c, k + 1)

\* the rendering of n >= 0 seconds
Rendering(n) ==
    LET c == Contributing(n)
    IN  IF Len(c) = 0 THEN "0 seconds"
        ELSE IF Len(c) = 2
        THEN CountOf(CountAt(n, c[1]), c[1]) \o " and "
               \o CountOf(CountAt(n, c[2]), c[2])
        ELSE Listed(n, c, 1)

\* C7: format_duration(n) is "-" and the rendering of |n| when n < 0, and
\* "0 seconds" when n = 0; otherwise n is decomposed over year, month,
\* week, day, hour, minute and second in that order, each unit of non-zero
\* count giving "<count> <unit>" with an s unless the count is 1, the
\* counts times the sizes summing to |n|, and the parts joined as one part,
\* as "A and B", or with commas and ", and " before the last.
C7_DurationRendering ==
    op = "format_duration" =>
        LET n == IF arg.seconds < 0 THEN -arg.seconds ELSE arg.seconds
        IN  /\ ret = Ok((IF arg.seconds < 0 THEN "-" ELSE "") \o Rendering(n))
            /\ SumOfCounts(n, Len(UnitSizes)) = n
            /\ arg.seconds = 0 => ret.v = "0 seconds"
            /\ arg.seconds = -90 => ret.v = "-1 minute and 30 seconds"

\* a negative duration of three parts has been rendered
C7_Witness ==
    /\ op = "format_duration"
    /\ arg.seconds = -3661
    /\ ret = Ok("-1 hour, 1 minute, and 1 second")

====
